---- MODULE Spec2Model ----
(***************************************************************************)
(* The persistence core of ixdat (src/src/ixdat/db.py): the DataBase       *)
(* facade DB with its active backend and its new-object routing, Saveable  *)
(* entities with their lazily assigned id, PlaceHolderObject,              *)
(* fill_object_list and the with_memory decorator.                         *)
(***************************************************************************)
EXTENDS Integers, Sequences, FiniteSets, TLC

VARIABLES
    DB_backend,             \* DB.backend, the process-wide active backend
    DB_new_object_backend,  \* DB.new_object_backend, "none" or "memory"
    n_inst,                 \* number of backend instances built from BACKEND_CLASSES
    wm_depth,               \* number of with_memory-wrapped calls now executing
    entities,               \* the Saveable objects of the session, by slot
    placeholders,           \* the PlaceHolderObjects of the session
    next_id,                \* per backend and table: the next available id
    classes,                \* the Saveable classes defined so far, in order
    ALL_SAVABLE_CLASSES,    \* the registry the metaclass fills
    objs,                   \* entities with attributes and owned children
    last                    \* the last operation: its inputs and its outcome

vars == <<DB_backend, DB_new_object_backend, n_inst, wm_depth, entities,
          placeholders, next_id, classes, ALL_SAVABLE_CLASSES, objs, last>>

\* The class definitions and the attributed entities, which the operations on
\* the DataBase facade, on ids and on placeholders leave alone.
classVars == <<classes, ALL_SAVABLE_CLASSES, objs>>

----------------------------------------------------------------------------
\* Bounds of the model.

MaxInst == 1        \* backend instances built by name
MaxDepth == 2       \* nesting of with_memory-wrapped calls
MaxId == 2          \* largest id given out or passed in
RecursionLimit == 2 \* depth at which the interpreter raises RecursionError
MaxObjs == 2        \* length of the object_list given to fill_object_list
MaxLen == 2         \* length of the obj_ids given to fill_object_list
MaxClasses == 4     \* classes defined in a hierarchy
MaxTableClasses == 3 \* classes defined in a hierarchy of tables
MaxRejected == 1    \* class definitions that the metaclass rejected

----------------------------------------------------------------------------
\* Values. A backend-like value is None, a name string or a backend instance.

NoId == -1  \* Python's None in the _id attribute

NoneArg == [kind |-> "None", type |-> "", n |-> 0]

Str(s) == [kind |-> "str", type |-> s, n |-> 0]

Inst(t, n) == [kind |-> "inst", type |-> t, n |-> n]

\* Truthiness of `x or y`: None is falsy, backends and non-empty names are truthy.
Truthy(x) == x.kind # "None"

\* `not self._id`: None and 0 are both falsy.
Falsy(i) == i = NoId \/ i = 0

\* ixdat.backends.database_backends: the ready instances, by name.
database_backends == [nm \in {"none", "memory", "directory"} |-> Inst(nm, 0)]

\* ixdat.backends.BACKEND_CLASSES: the names of the constructible classes.
BACKEND_CLASSES == {"directory", "memory"}

\* The session holds one Saveable object at a time: a new object takes the
\* slot of the one before it, which is no longer referenced.
Slots == {1}

Classes == {"A", "B"}   \* two Saveable classes; table_name is the class name

Ids == 0..MaxId

\* The backends whose get_next_available_id the id property may call.
IdBackends == {Inst("none", 0)} \cup {Inst("memory", n) : n \in 0..MaxInst}

NoEnt == [cls |-> "", backend |-> NoneArg, id |-> NoId]

NoLast == [op |-> "init", outcome |-> "ok", e |-> 0, arg |-> NoneArg,
           i |-> NoId, cls |-> "", pre |-> NoEnt, val |-> NoId, asked |-> FALSE,
           ctr0 |-> 0, nob0 |-> "none", db0 |-> NoneArg, fetched |-> NoneArg,
           obj |-> NoEnt, depth0 |-> 0, given |-> FALSE, ents0 |-> <<>>,
           ids |-> <<>>, list |-> <<>>, body |-> <<>>,
           skipped |-> <<>>, tables |-> <<>>, a |-> 0, b |-> 0,
           result |-> "", objs0 |-> <<>>, dict |-> <<>>]

----------------------------------------------------------------------------
\* DataBase

\* DataBase.set_backend(backend_name): the new DB.backend, or the error.
UnknownNameFallsThrough(cur, backend_name, ninst) ==
    IF backend_name.kind # "str"
    THEN [raised |-> FALSE, backend |-> backend_name, n_inst |-> ninst]
    ELSE IF backend_name.type \in BACKEND_CLASSES
    THEN [raised |-> FALSE, backend |-> Inst(backend_name.type, ninst + 1),
          n_inst |-> ninst + 1]
    ELSE [raised |-> FALSE, backend |-> database_backends["directory"],
          n_inst |-> ninst]

DataBase_set_backend(cur, backend_name, ninst) ==
    IF backend_name.kind # "str"
    THEN [raised |-> FALSE, backend |-> backend_name, n_inst |-> ninst]
    ELSE IF backend_name.type \in BACKEND_CLASSES
    THEN [raised |-> FALSE, backend |-> Inst(backend_name.type, ninst + 1),
          n_inst |-> ninst + 1]
    ELSE [raised |-> TRUE, backend |-> cur, n_inst |-> ninst]

\* Backend.get(cls, i): the backend returns the object, with its id and
\* backend set, or raises; which one depends on what the backend stores.
Backend_get(b, cls, i, found) ==
    IF found
    THEN [raised |-> FALSE, from |-> b, obj |-> [cls |-> cls, backend |-> b, id |-> i]]
    ELSE [raised |-> TRUE, from |-> b, obj |-> NoEnt]

\* DataBase.get(cls, i, backend=None)
DataBase_get(db, cls, i, backend, found) ==
    Backend_get(IF Truthy(backend) THEN backend ELSE db, cls, i, found)

\* Saveable.get(i, backend=None): switch, get, switch back.
GetIgnoresBackend(db, ninst, cls, i, backend, found) ==
    LET g == DataBase_get(db, cls, i, NoneArg, found)
    IN  [outcome |-> IF g.raised THEN "BackendError" ELSE "ok",
         DB_backend |-> db, n_inst |-> ninst, fetched |-> g.from, obj |-> g.obj]

Saveable_get(db, ninst, cls, i, backend, found) ==
    LET old_backend == db
        s1 == DataBase_set_backend(db, IF Truthy(backend) THEN backend
                                                          ELSE old_backend, ninst)
        g  == DataBase_get(s1.backend, cls, i, NoneArg, found)
        s2 == DataBase_set_backend(s1.backend, old_backend, s1.n_inst)
    IN  IF s1.raised
        THEN [outcome |-> "NotImplementedError", DB_backend |-> s1.backend,
              n_inst |-> s1.n_inst, fetched |-> NoneArg, obj |-> NoEnt]
        ELSE IF g.raised
        THEN [outcome |-> "BackendError", DB_backend |-> s1.backend,
              n_inst |-> s1.n_inst, fetched |-> g.from, obj |-> NoEnt]
        ELSE [outcome |-> "ok", DB_backend |-> s2.backend,
              n_inst |-> s2.n_inst, fetched |-> g.from, obj |-> g.obj]


----------------------------------------------------------------------------
\* PlaceHolderObject

\* PlaceHolderObject.__init__(i, cls, backend=None)
InitAcceptsNoneInstance(db, i, cls, backend) ==
    LET b == IF Truthy(backend) THEN backend ELSE db
    IN  IF ~Truthy(b) \/ b = Str("none")
        THEN [raised |-> TRUE, ph |-> [id |-> i, cls |-> cls, backend |-> b]]
        ELSE [raised |-> FALSE, ph |-> [id |-> i, cls |-> cls, backend |-> b]]

PlaceHolderObject_init(db, i, cls, backend) ==
    LET b == IF Truthy(backend) THEN backend ELSE db
    IN  IF ~Truthy(b) \/ b = Str("none") \/ b = database_backends["none"]
        THEN [raised |-> TRUE, ph |-> [id |-> i, cls |-> cls, backend |-> b]]
        ELSE [raised |-> FALSE, ph |-> [id |-> i, cls |-> cls, backend |-> b]]

\* PlaceHolderObject.get_object()
PlaceHolderObject_get_object(ph, db, ninst, found) ==
    Saveable_get(db, ninst, ph.cls, ph.id, ph.backend, found)


----------------------------------------------------------------------------
\* Saveable: backend and id of an entity [cls, backend, id]

\* Backend.get_next_available_id(table_name): the memory and the none
\* backend count the objects of each table, starting with 1.
get_next_available_id(ctr, b, table) ==
    [id |-> ctr[b][table],
     ctr |-> [ctr EXCEPT ![b][table] = ctr[b][table] + 1]]

\* Saveable.backend (getter)
Saveable_backend(ent) ==
    IF Truthy(ent.backend) THEN ent.backend ELSE database_backends["none"]

IdResult(outcome, ent, ctr, asked, val) ==
    [outcome |-> outcome, ent |-> ent, ctr |-> ctr, asked |-> asked, val |-> val]

\* Saveable.id (property) and Saveable.__repr__, which reads self.id. The
\* message of the DataBaseError is an f-string that formats self, so raising
\* it evaluates __repr__ and with it the id property again.
RECURSIVE Saveable_id(_, _, _)
RECURSIVE Saveable_repr(_, _, _)

IdAlwaysAsksBackend(ent, ctr, depth) ==
    LET b == Saveable_backend(ent)
        n == get_next_available_id(ctr, b, ent.cls)
    IN  IF b.kind # "inst"
        THEN IdResult("AttributeError", ent, ctr, FALSE, NoId)
        ELSE IF b.type \in {"none", "memory"}
        THEN IdResult("ok", [ent EXCEPT !.id = n.id], n.ctr, TRUE, n.id)
        ELSE IdResult("DataBaseError", ent, ctr, FALSE, NoId)

Saveable_id(ent, ctr, depth) ==
    LET b == Saveable_backend(ent)
        n == get_next_available_id(ctr, b, ent.cls)
        r == Saveable_repr(ent, ctr, depth + 1)
    IN  IF depth > RecursionLimit
        THEN IdResult("RecursionError", ent, ctr, FALSE, NoId)
        ELSE IF ~Falsy(ent.id)
        THEN IdResult("ok", ent, ctr, FALSE, ent.id)
        ELSE IF b.kind # "inst"    \* a str has no attribute backend_type
        THEN IdResult("AttributeError", ent, ctr, FALSE, NoId)
        ELSE IF b.type \in {"none", "memory"}
        THEN IdResult("ok", [ent EXCEPT !.id = n.id], n.ctr, TRUE, n.id)
        ELSE IF r.outcome # "ok"
        THEN r
        ELSE IdResult("DataBaseError", r.ent, r.ctr, r.asked, NoId)

Saveable_repr(ent, ctr, depth) == Saveable_id(ent, ctr, depth)

\* Saveable.short_identity: the id, alone or paired with the backend.
Saveable_short_identity(ent, ctr, db) == Saveable_id(ent, ctr, 0)

\* Saveable.full_identity: backend_type, address, table_name and id.
Saveable_full_identity(ent, ctr) ==
    IF Saveable_backend(ent).kind # "inst"
    THEN IdResult("AttributeError", ent, ctr, FALSE, NoId)
    ELSE Saveable_id(ent, ctr, 0)

\* Saveable.backend (setter). has_id is FALSE while __init__ runs, where
\* the setter is called before self._id exists.
Saveable_backend_setter(ent, new_backend, nob, ctr, ninst, has_id) ==
    LET nb == IF Truthy(new_backend) THEN new_backend ELSE Str(nob)
        r  == Saveable_repr(ent, ctr, 0)     \* the WARNING formats self
        done(o, e, c, n) == [outcome |-> o, ent |-> e, ctr |-> c, n_inst |-> n]
    IN  IF nb.kind # "str"
        THEN done("ok", [ent EXCEPT !.backend = nb], ctr, ninst)
        ELSE IF nb.type \in DOMAIN database_backends
        THEN done("ok", [ent EXCEPT !.backend = database_backends[nb.type]],
                  ctr, ninst)
        ELSE IF nb.type \in BACKEND_CLASSES
        THEN done("ok", [ent EXCEPT !.backend = Inst(nb.type, ninst + 1)],
                  ctr, ninst + 1)
        ELSE IF ~has_id
        THEN done("AttributeError", ent, ctr, ninst)
        ELSE IF r.outcome # "ok"
        THEN done(r.outcome, r.ent, r.ctr, ninst)
        ELSE done("ok", [r.ent EXCEPT !.backend = nb], r.ctr, ninst)

\* Saveable.__init__(backend=None), without keyword arguments
Saveable_init(cls, backend, nob, ctr, ninst) ==
    LET r == Saveable_backend_setter([cls |-> cls, backend |-> NoneArg, id |-> NoId],
                                     backend, nob, ctr, ninst, FALSE)
    IN  [r EXCEPT !.ent.id = NoId]

\* Saveable.set_id(i)
Saveable_set_id(ent, i) == [ent EXCEPT !.id = i]

\* Saveable.set_backend(backend)
Saveable_set_backend(ent, backend, nob, ctr, ninst) ==
    Saveable_backend_setter(ent, backend, nob, ctr, ninst, TRUE)

\* with_memory: function_with_memory sets the routing, calls the function
\* and sets the routing again once the function has returned.
with_memory_before_call(nob) == "memory"

with_memory_after_call(nob, raised) == IF raised THEN nob ELSE "none"


----------------------------------------------------------------------------
\* fill_object_list

NoPH == [id |-> NoId, cls |-> "", backend |-> NoneArg]

\* An element of an object list: the entity in slot k, or a placeholder.
EntityItem(k) == [isph |-> FALSE, k |-> k, ph |-> NoPH]

PlaceHolderItem(ph) == [isph |-> TRUE, k |-> 0, ph |-> ph]

\* An identity in obj_ids: a bare id, or a pair (backend, id).
BareId(i) == [bare |-> TRUE, backend |-> NoneArg, i |-> i]

PairId(b, i) == [bare |-> FALSE, backend |-> b, i |-> i]

\* provided_series_ids = [s.id for s in object_list], from element k on;
\* every read of an id may assign it, or raise.
RECURSIVE ProvidedIds(_, _, _, _)
ProvidedIds(ents, ctr, k, acc) ==
    IF k > Len(ents)
    THEN [outcome |-> "ok", ents |-> ents, ctr |-> ctr, ids |-> acc]
    ELSE LET r == Saveable_id(ents[k], ctr, 0)
         IN  IF r.outcome # "ok"
             THEN [outcome |-> r.outcome, ents |-> [ents EXCEPT ![k] = r.ent],
                   ctr |-> r.ctr, ids |-> acc]
             ELSE ProvidedIds([ents EXCEPT ![k] = r.ent], r.ctr, k + 1,
                              Append(acc, r.val))

\* The loop over obj_ids, from identity j on.
RECURSIVE AppendPlaceHolders(_, _, _, _, _, _)
AppendPlaceHolders(list, obj_ids, j, provided, cls, db) ==
    IF j > Len(obj_ids)
    THEN [outcome |-> "ok", list |-> list]
    ELSE LET identity == obj_ids[j]
             i == identity.i
             backend == IF identity.bare THEN db ELSE identity.backend
             r == PlaceHolderObject_init(db, i, cls, backend)
         IN  IF \E n \in 1..Len(provided) : provided[n] = i
             THEN AppendPlaceHolders(list, obj_ids, j + 1, provided, cls, db)
             ELSE IF r.raised
             THEN [outcome |-> "DataBaseError", list |-> list]
             ELSE AppendPlaceHolders(Append(list, PlaceHolderItem(r.ph)),
                                     obj_ids, j + 1, provided, cls, db)

\* fill_object_list(object_list, obj_ids, cls). given is FALSE when
\* object_list is None, cls is "" when cls is None; ents are the elements of
\* object_list when it is given.
FillIgnoresProvided(given, ents, obj_ids, cls, db, ctr) ==
    LET elems == IF given THEN ents ELSE <<>>
        the_cls == IF cls # "" THEN cls ELSE elems[1].cls
        object_list == [k \in 1..Len(elems) |-> EntityItem(k)]
        p == ProvidedIds(elems, ctr, 1, <<>>)
        a == AppendPlaceHolders(object_list, obj_ids, 1, <<>>, the_cls, db)
        done(o, l, e, c) == [outcome |-> o, list |-> l, ents |-> e, ctr |-> c]
    IN  IF cls = "" /\ ~given
        THEN done("TypeError", <<>>, ents, ctr)    \* None[0]
        ELSE IF cls = "" /\ Len(elems) = 0
        THEN done("IndexError", <<>>, ents, ctr)   \* [][0]
        ELSE IF p.outcome # "ok"
        THEN done(p.outcome, <<>>, IF given THEN p.ents ELSE ents, p.ctr)
        ELSE IF Len(obj_ids) = 0
        THEN done("ok", object_list, IF given THEN p.ents ELSE ents, p.ctr)
        ELSE done(a.outcome, a.list, IF given THEN p.ents ELSE ents, p.ctr)

fill_object_list(given, ents, obj_ids, cls, db, ctr) ==
    LET elems == IF given THEN ents ELSE <<>>
        the_cls == IF cls # "" THEN cls ELSE elems[1].cls
        object_list == [k \in 1..Len(elems) |-> EntityItem(k)]
        p == ProvidedIds(elems, ctr, 1, <<>>)
        a == AppendPlaceHolders(object_list, obj_ids, 1, p.ids, the_cls, db)
        done(o, l, e, c) == [outcome |-> o, list |-> l, ents |-> e, ctr |-> c]
    IN  IF cls = "" /\ ~given
        THEN done("TypeError", <<>>, ents, ctr)    \* None[0]
        ELSE IF cls = "" /\ Len(elems) = 0
        THEN done("IndexError", <<>>, ents, ctr)   \* [][0]
        ELSE IF p.outcome # "ok"
        THEN done(p.outcome, <<>>, IF given THEN p.ents ELSE ents, p.ctr)
        ELSE IF Len(obj_ids) = 0
        THEN done("ok", object_list, IF given THEN p.ents ELSE ents, p.ctr)
        ELSE done(a.outcome, a.list, IF given THEN p.ents ELSE ents, p.ctr)


----------------------------------------------------------------------------
\* Classes. Class 0 is Saveable; class k > 0 is classes[k], whose bases are
\* classes defined before it. A mixin is a class that does not derive from
\* Saveable (its only base is object).

\* The class attributes a class body declares. table = "" stands for a body
\* without table_name; has_cols and has_ools tell whether the body assigns
\* columns and owned_object_lists; skip is _SKIP_IN_TABLE_SCAN.
Body(table, has_cols, columns, has_ools, ools, skip) ==
    [table |-> table, has_cols |-> has_cols, columns |-> columns,
     has_ools |-> has_ools, ools |-> ools, skip |-> skip]

PlainBody == Body("", FALSE, <<>>, FALSE, <<>>, FALSE)

Class(bases, body) == [bases |-> bases, body |-> body]

Min(S) == CHOOSE x \in S : \A y \in S : x <= y

Range(q) == {q[i] : i \in 1..Len(q)}

NonEmpty(q) == Len(q) > 0

\* The merge of the C3 linearization: take the first head that is in no tail.
RECURSIVE C3Merge(_, _)
C3Merge(seqs, acc) ==
    LET live == SelectSeq(seqs, NonEmpty)
        InTail(h) == \E i \in 1..Len(live) : \E j \in 2..Len(live[i]) : live[i][j] = h
        good == {i \in 1..Len(live) : ~InTail(live[i][1])}
        h == live[Min(good)][1]
        Keep(x) == x # h
    IN  IF Len(live) = 0 THEN [ok |-> TRUE, mro |-> acc]
        ELSE IF good = {} THEN [ok |-> FALSE, mro |-> acc]
        ELSE C3Merge([i \in 1..Len(live) |-> SelectSeq(live[i], Keep)],
                     Append(acc, h))

\* type.mro(): the method resolution order of class k, without object.
RECURSIVE Linearize(_, _)
Linearize(cl, k) ==
    IF k = 0 THEN [ok |-> TRUE, mro |-> <<0>>]
    ELSE LET bases == cl[k].bases
         IN  C3Merge([i \in 1..Len(bases) |-> Linearize(cl, bases[i]).mro]
                        \o <<bases>>, <<k>>)

mro(cl, k) == Linearize(cl, k).mro

issubclass(cl, x, y) == y \in Range(mro(cl, x))

\* Saveable.get_column_resolution_order(): the loop over cls.mro(), from
\* position j on.
RECURSIVE CroLoop(_, _, _, _)
CroAppendsOnly(cl, mro_class_list, j, cro_class_list) ==
    IF j > Len(mro_class_list) THEN cro_class_list
    ELSE LET cls_in_mro == mro_class_list[j]
         IN  IF ~issubclass(cl, cls_in_mro, 0) \/ cls_in_mro = 0
             THEN CroLoop(cl, mro_class_list, j + 1, cro_class_list)
             ELSE CroLoop(cl, mro_class_list, j + 1,
                          Append(cro_class_list, cls_in_mro))

CroLoop(cl, mro_class_list, j, cro_class_list) ==
    IF j > Len(mro_class_list) THEN cro_class_list
    ELSE LET cls_in_mro == mro_class_list[j]
             hits == {i \in 1..Len(cro_class_list) :
                         issubclass(cl, cro_class_list[i], cls_in_mro)}
             i0 == Min(hits)
         IN  IF ~issubclass(cl, cls_in_mro, 0) \/ cls_in_mro = 0
             THEN CroLoop(cl, mro_class_list, j + 1, cro_class_list)
             ELSE IF hits # {}
             THEN CroLoop(cl, mro_class_list, j + 1,
                          SubSeq(cro_class_list, 1, i0 - 1) \o <<cls_in_mro>>
                              \o SubSeq(cro_class_list, i0, Len(cro_class_list)))
             ELSE CroLoop(cl, mro_class_list, j + 1,
                          Append(cro_class_list, cls_in_mro))

get_column_resolution_order(cl, k) == CroLoop(cl, mro(cl, k), 1, <<>>)

\* getattr(cls, name): the value of the first class of the MRO whose body
\* assigns it, or Saveable's default (table_name None, columns [],
\* owned_object_lists []). A mixin assigns none of them.
HasAttr(body, attr) ==
    CASE attr = "table_name" -> body.table # ""
      [] attr = "columns" -> body.has_cols
      [] attr = "owned_object_lists" -> body.has_ools

GetAttr(body, attr) ==
    CASE attr = "table_name" -> <<body.table>>
      [] attr = "columns" -> body.columns
      [] attr = "owned_object_lists" -> body.ools

RECURSIVE Lookup(_, _, _, _)
Lookup(cl, order, j, attr) ==
    IF j > Len(order) THEN [found |-> FALSE, val |-> <<>>]
    ELSE IF order[j] = 0 THEN [found |-> TRUE, val |-> <<>>]
    ELSE IF HasAttr(cl[order[j]].body, attr)
    THEN [found |-> TRUE, val |-> GetAttr(cl[order[j]].body, attr)]
    ELSE Lookup(cl, order, j + 1, attr)

\* cls.table_name: <<>> is None, <<t>> the name t.
table_name(cl, k) == Lookup(cl, mro(cl, k), 1, "table_name")

columns(cl, k) == Lookup(cl, mro(cl, k), 1, "columns")

owned_object_lists(cl, k) == Lookup(cl, mro(cl, k), 1, "owned_object_lists")

\* SaveableMetaClass.__new__(name, bases, attrs): the class is created, then
\* registered and checked.
RECURSIVE SameTableAsBase(_, _, _, _)
SameTableAsBase(cl, bases, j, table) ==
    IF j > Len(bases) THEN "no"
    ELSE LET t == table_name(cl, bases[j])
         IN  IF ~t.found THEN "AttributeError"   \* a mixin has no table_name
             ELSE IF t.val = <<table>> THEN "yes"
             ELSE SameTableAsBase(cl, bases, j + 1, table)

SaveableMetaClass_new(cl, bases, body) ==
    LET new  == Append(cl, Class(bases, body))
        k    == Len(new)
        lin  == Linearize(new, k)
        tn   == table_name(new, k)
        scan == tn.found /\ tn.val # <<>> /\ ~body.skip
        same == SameTableAsBase(new, bases, 1, body.table)
    IN  IF ~lin.ok THEN [outcome |-> "TypeError", registered |-> FALSE]
        ELSE IF ~scan THEN [outcome |-> "ok", registered |-> FALSE]
        ELSE IF ~(body.has_cols /\ Len(body.columns) > 0)
        THEN [outcome |-> "ok", registered |-> TRUE]
        ELSE IF body.table = ""
        THEN [outcome |-> "ValueError", registered |-> TRUE]
        ELSE IF same = "AttributeError"
        THEN [outcome |-> "AttributeError", registered |-> TRUE]
        ELSE IF same = "yes"
        THEN [outcome |-> "ValueError", registered |-> TRUE]
        ELSE [outcome |-> "ok", registered |-> TRUE]


\* Column(name, ctype, foreign_key=, attribute_name=): foreign_key is <<>> for
\* None or <<table, column>>; the ctype plays no part in the merge.
Column(name, attribute_name, foreign_key) ==
    [name |-> name, attribute_name |-> attribute_name, foreign_key |-> foreign_key]

\* cls.column_names()
column_names(cl, k) ==
    LET cs == columns(cl, k).val IN {cs[i].name : i \in 1..Len(cs)}

\* The dict table_classes as the list of its items <<table_name, class>>.
InTableClasses(table_classes, t) ==
    \E i \in 1..Len(table_classes) : table_classes[i][1] = t

TableClass(table_classes, t) ==
    table_classes[CHOOSE i \in 1..Len(table_classes) : table_classes[i][1] = t][2]

NoMerge ==
    [outcome |-> "ok", list |-> <<>>, attrs |-> <<>>, tables |-> <<>>,
     skipped |-> <<>>, table_classes |-> <<>>]

\* Saveable.get_full_columns(): the loop over the columns of one class of the
\* column resolution order, whose table is t, from position j on.
RECURSIVE ColumnLoop(_, _, _, _, _)
ColumnLoop(cl, cols, j, t, st) ==
    IF j > Len(cols) \/ st.outcome # "ok" THEN st
    ELSE LET column == cols[j]
             attr == column.attribute_name
             fk == column.foreign_key
         IN  IF attr \in Range(st.attrs)
             THEN IF /\ fk # <<>>
                     /\ InTableClasses(st.table_classes, <<fk[1]>>)
                     /\ fk[2] \in column_names(cl, TableClass(st.table_classes, <<fk[1]>>))
                  THEN ColumnLoop(cl, cols, j + 1, t,
                                  [st EXCEPT !.skipped = Append(@, column)])
                  ELSE [st EXCEPT !.outcome = "ValueError"]
             ELSE ColumnLoop(cl, cols, j + 1, t,
                             [st EXCEPT !.list = Append(@, column),
                                        !.attrs = Append(@, attr),
                                        !.tables = Append(@, t)])

\* The loop over the column resolution order, from position i on.
RECURSIVE FullColumnsLoop(_, _, _, _)
FullColumnsLoop(cl, cro, i, st) ==
    IF i > Len(cro) \/ st.outcome # "ok" THEN st
    ELSE LET parent_class == cro[i]
             t == table_name(cl, parent_class).val
         IN  IF InTableClasses(st.table_classes, t)
             THEN FullColumnsLoop(cl, cro, i + 1, st)
             ELSE FullColumnsLoop(cl, cro, i + 1,
                      ColumnLoop(cl, columns(cl, parent_class).val, 1, t,
                          [st EXCEPT !.table_classes = Append(@, <<t, parent_class>>)]))

get_full_columns(cl, k) ==
    FullColumnsLoop(cl, get_column_resolution_order(cl, k), 1, NoMerge)

\* Saveable.get_full_owned_object_lists(): an owned object list is modelled
\* by its list_name.
RECURSIVE OwnedObjectListLoop(_, _, _)
OwnedObjectListLoop(ools, j, st) ==
    IF j > Len(ools) \/ st.outcome # "ok" THEN st
    ELSE IF ools[j] \in Range(st.attrs)
    THEN [st EXCEPT !.outcome = "ValueError"]
    ELSE OwnedObjectListLoop(ools, j + 1,
                             [st EXCEPT !.list = Append(@, ools[j]),
                                        !.attrs = Append(@, ools[j])])

RECURSIVE FullOwnedObjectListsLoop(_, _, _, _)
FullOwnedObjectListsLoop(cl, cro, i, st) ==
    IF i > Len(cro) \/ st.outcome # "ok" THEN st
    ELSE LET parent_class == cro[i]
             t == table_name(cl, parent_class).val
         IN  IF InTableClasses(st.table_classes, t)
             THEN FullOwnedObjectListsLoop(cl, cro, i + 1, st)
             ELSE FullOwnedObjectListsLoop(cl, cro, i + 1,
                      OwnedObjectListLoop(owned_object_lists(cl, parent_class).val, 1,
                          [st EXCEPT !.table_classes = Append(@, <<t, parent_class>>)]))

get_full_owned_object_lists(cl, k) ==
    FullOwnedObjectListsLoop(cl, get_column_resolution_order(cl, k), 1, NoMerge)


----------------------------------------------------------------------------
\* Serialization and equality of Saveable objects. An object of the session
\* is objs[k], a record of its class, its attributes name, kid_ids and kids
\* (the objects it owns, by position in objs), its backend and its _id.

\* Attribute values: a string, the float 1.0 + n * step, a list of ids.
StrValue(str) == [kind |-> "str", s |-> str, n |-> 0, items |-> <<>>]

FloatValue(n) == [kind |-> "float", s |-> "", n |-> n, items |-> <<>>]

ListValue(q) == [kind |-> "list", s |-> "", n |-> 0, items |-> q]

NoneValue == [kind |-> "None", s |-> "", n |-> 0, items |-> <<>>]

\* Floats no further apart than this many steps are close.
FloatTolerance == 1

\* ixdat.tools.thing_is_close: floats are compared with a tolerance, all
\* else for equality.
thing_is_close(x, y) ==
    IF x.kind = "float" /\ y.kind = "float"
    THEN x.n - y.n <= FloatTolerance /\ y.n - x.n <= FloatTolerance
    ELSE x = y

Object(cls, name, kid_ids, kids) ==
    [cls |-> cls, name |-> name, kid_ids |-> kid_ids, kids |-> kids,
     backend |-> database_backends["none"], id |-> NoId]

\* The class attributes that the classes A and B of the session define.
column_attrs(cls) == <<"name">>

extra_linkers(cls) ==
    <<[table_name |-> "kids_table", linked_table_name |-> "B", attr |-> "kid_ids"]>>

child_attrs(cls) == <<"kids">>

\* len(attr) for the attribute names of the session
AttrLen == [name |-> 4, kid_ids |-> 7, kids |-> 4]

\* The memory backend's save(obj): the object gets an id if it has none and
\* the memory backend as its backend.
MemoryBackend_save(o, ctr) ==
    LET mem == database_backends["memory"]
        r == get_next_available_id(ctr, mem, o.cls)
    IN  IF o.id = NoId
        THEN [obj |-> [o EXCEPT !.backend = mem, !.id = r.id], ctr |-> r.ctr]
        ELSE [obj |-> [o EXCEPT !.backend = mem], ctr |-> ctr]

\* Saveable.as_dict: the loop that saves the objects of one child list, from
\* position j on.
RECURSIVE SaveChildren(_, _, _, _)
SaveChildren(os, ctr, child_list, j) ==
    IF j > Len(child_list) THEN [objs |-> os, ctr |-> ctr]
    ELSE LET child_obj == os[child_list[j]]
             r == MemoryBackend_save(child_obj, ctr)
         IN  IF Saveable_backend(child_obj) = database_backends["none"]
             THEN SaveChildren([os EXCEPT ![child_list[j]] = r.obj], r.ctr,
                               child_list, j + 1)
             ELSE SaveChildren(os, ctr, child_list, j + 1)

\* The loop over self.child_attrs, from position i on.
RECURSIVE SaveChildLists(_, _, _, _)
SaveChildLists(os, ctr, a, i) ==
    IF i > Len(child_attrs(os[a].cls)) THEN [objs |-> os, ctr |-> ctr]
    ELSE LET r == SaveChildren(os, ctr, os[a][child_attrs(os[a].cls)[i]], 1)
         IN  SaveChildLists(r.objs, r.ctr, a, i + 1)

\* A dict is the list of its items [key, val], in insertion order.
Keys(d) == {d[i].key : i \in 1..Len(d)}

Value(d, key) == d[CHOOSE i \in 1..Len(d) : d[i].key = key].val

\* Saveable.get_main_dict
Saveable_get_main_dict(o, exclude) ==
    LET attrs == column_attrs(o.cls)
        Kept(attr) == attr \notin exclude
        kept == SelectSeq(attrs, Kept)
    IN  [i \in 1..Len(kept) |-> [key |-> kept[i], val |-> o[kept[i]]]]

\* self_as_dict.update(**linked_attrs) for the linkers, from position i on
RECURSIVE UpdateWithLinkers(_, _, _, _, _)
UpdateWithLinkers(d, o, linkers, i, exclude) ==
    IF i > Len(linkers) THEN d
    ELSE LET attr == linkers[i].attr
             item == [key |-> attr, val |-> o[attr]]
             upd == IF attr \in Keys(d)
                    THEN [j \in 1..Len(d) |-> IF d[j].key = attr THEN item ELSE d[j]]
                    ELSE Append(d, item)
         IN  IF attr \in exclude
             THEN UpdateWithLinkers(d, o, linkers, i + 1, exclude)
             ELSE UpdateWithLinkers(upd, o, linkers, i + 1, exclude)

\* The one element of a set of one
Only(S) == CHOOSE x \in S : TRUE

\* Saveable.as_dict, after the children were saved
DictOf(saved, a, exclude) ==
    [dict |-> UpdateWithLinkers(Saveable_get_main_dict(saved.objs[a], exclude),
                                saved.objs[a], extra_linkers(saved.objs[a].cls),
                                1, exclude),
     objs |-> saved.objs, ctr |-> saved.ctr]

\* Saveable.as_dict
Saveable_as_dict(os, ctr, a, exclude) ==
    Only({DictOf(saved, a, exclude) : saved \in {SaveChildLists(os, ctr, a, 1)}})

EqResult(result, os, ctr) == [result |-> result, objs |-> os, ctr |-> ctr]

EqIsIdentity(os, ctr, a, b, depth) ==
    EqResult(IF a = b THEN "True" ELSE "False", os, ctr)

\* Saveable.__eq__, at recursion depth `depth`; the result is "True", "False"
\* or "RecursionError" when the interpreter's recursion limit is passed.
RECURSIVE Saveable_eq(_, _, _, _, _)
\* the loop over zip(object_list, other_object_list), from position i on
RECURSIVE ZipLoop(_, _, _, _, _, _)
ZipStep(r, object_list, other_object_list, i, depth) ==
    IF r.result = "True"
    THEN ZipLoop(r.objs, r.ctr, object_list, other_object_list, i + 1, depth)
    ELSE r

ZipLoopSkipsChildren(os, ctr, object_list, other_object_list, i, depth) ==
    EqResult("True", os, ctr)

ZipLoop(os, ctr, object_list, other_object_list, i, depth) ==
    IF i > Len(object_list) \/ i > Len(other_object_list)
    THEN EqResult("True", os, ctr)
    ELSE Only({ZipStep(r, object_list, other_object_list, i, depth) :
                  r \in {Saveable_eq(os, ctr, object_list[i],
                                     other_object_list[i], depth + 1)}})

\* the loop over self.child_attrs, from position i on
RECURSIVE ChildAttrsLoop(_, _, _, _, _, _)
ChildAttrsStep(r, a, b, i, depth) ==
    IF r.result = "True" THEN ChildAttrsLoop(r.objs, r.ctr, a, b, i + 1, depth)
    ELSE r

ChildAttrsLoop(os, ctr, a, b, i, depth) ==
    IF i > Len(child_attrs(os[a].cls)) THEN EqResult("True", os, ctr)
    ELSE Only({ChildAttrsStep(r, a, b, i, depth) :
                  r \in {ZipLoop(os, ctr, os[a][child_attrs(os[a].cls)[i]],
                                 os[b][child_attrs(os[a].cls)[i]], 1, depth)}})

\* the comparison of the two dictionary representations and of the children
CompareDicts(self_as_dict, other_as_dict, a, b, depth) ==
    IF Len(self_as_dict.dict) # Len(other_as_dict.dict)
    THEN EqResult("False", other_as_dict.objs, other_as_dict.ctr)
    ELSE IF \E key \in Keys(self_as_dict.dict) :
               \/ key \notin Keys(other_as_dict.dict)
               \/ ~thing_is_close(Value(self_as_dict.dict, key),
                                  Value(other_as_dict.dict, key))
    THEN EqResult("False", other_as_dict.objs, other_as_dict.ctr)
    ELSE ChildAttrsLoop(other_as_dict.objs, other_as_dict.ctr, a, b, 1, depth)

Saveable_eq(os, ctr, a, b, depth) ==
    IF depth > RecursionLimit THEN EqResult("RecursionError", os, ctr)
    ELSE IF a = b THEN EqResult("True", os, ctr)
    ELSE IF os[a].cls # os[b].cls THEN EqResult("False", os, ctr)
    ELSE Only(UNION {{CompareDicts(self_as_dict, other_as_dict, a, b, depth) :
                         other_as_dict \in {Saveable_as_dict(self_as_dict.objs,
                                                self_as_dict.ctr, b, {})}} :
                     self_as_dict \in {Saveable_as_dict(os, ctr, a, {})}})

\* Saveable.__init__(**self_as_dict) as called by from_dict: the loop
\* `for attr, value in self_as_dict` unpacks each key, a string, into two
\* characters; the object then gets the attributes of __init__ only.
Saveable_from_dict(cls, obj_as_dict) ==
    IF \E i \in 1..Len(obj_as_dict) : AttrLen[obj_as_dict[i].key] # 2
    THEN [outcome |-> "ValueError", obj |-> Object(cls, NoneValue, NoneValue, <<>>)]
    ELSE [outcome |-> "ok", obj |-> Object(cls, NoneValue, NoneValue, <<>>)]

----------------------------------------------------------------------------
Init ==
    /\ DB_backend = database_backends["directory"]
    /\ DB_new_object_backend = "none"
    /\ n_inst = 0
    /\ wm_depth = 0
    /\ entities = [k \in Slots |-> NoEnt]
    /\ placeholders = <<>>
    /\ next_id = [b \in IdBackends |-> [c \in Classes |-> 1]]
    /\ classes = <<>>
    /\ ALL_SAVABLE_CLASSES = {}
    /\ objs = <<>>
    /\ last = NoLast

\* The backends and names a caller passes.
Singletons == {database_backends[nm] : nm \in DOMAIN database_backends}

BackendArgs == Singletons \cup {DB_backend} \cup {Str("memory"), Str("bogus")}

\* change_database(db_name) / DB.set_backend(backend_name)
change_database(db_name) ==
    LET s == DataBase_set_backend(DB_backend, db_name, n_inst)
    IN  /\ s.n_inst <= MaxInst
        /\ DB_backend' = s.backend
        /\ n_inst' = s.n_inst
        /\ last' = [NoLast EXCEPT !.op = "set_backend", !.arg = db_name,
                       !.db0 = DB_backend,
                       !.outcome = IF s.raised THEN "NotImplementedError" ELSE "ok"]
        /\ UNCHANGED <<DB_new_object_backend, wm_depth, entities, placeholders, next_id>>
        /\ UNCHANGED classVars

\* cls.get(i, backend)
GetCall(cls, i, backend, found) ==
    LET r == Saveable_get(DB_backend, n_inst, cls, i, backend, found)
    IN  /\ r.n_inst <= MaxInst
        /\ DB_backend' = r.DB_backend
        /\ n_inst' = r.n_inst
        /\ last' = [NoLast EXCEPT !.op = "get", !.db0 = DB_backend,
                       !.outcome = r.outcome]
        /\ UNCHANGED <<DB_new_object_backend, wm_depth, entities, placeholders, next_id>>
        /\ UNCHANGED classVars

\* PlaceHolderObject(i, cls, backend): the session keeps the newest
\* placeholder; the one before it is no longer referenced.
NewPlaceHolder(i, cls, backend) ==
    LET r == PlaceHolderObject_init(DB_backend, i, cls, backend)
    IN  /\ placeholders' = IF r.raised THEN placeholders ELSE <<r.ph>>
        /\ last' = [NoLast EXCEPT !.op = "placeholder", !.arg = backend, !.i = i,
                       !.cls = cls, !.db0 = DB_backend, !.val = Len(placeholders),
                       !.outcome = IF r.raised THEN "DataBaseError" ELSE "ok"]
        /\ UNCHANGED <<DB_backend, DB_new_object_backend, n_inst, wm_depth,
                       entities, next_id>>
        /\ UNCHANGED classVars

\* placeholder.get_object()
GetObject(p, found) ==
    LET r == PlaceHolderObject_get_object(placeholders[p], DB_backend, n_inst, found)
    IN  /\ r.n_inst <= MaxInst
        /\ DB_backend' = r.DB_backend
        /\ n_inst' = r.n_inst
        /\ last' = [NoLast EXCEPT !.op = "get_object", !.e = p,
                       !.arg = placeholders[p].backend, !.db0 = DB_backend,
                       !.outcome = r.outcome, !.fetched = r.fetched, !.obj = r.obj]
        /\ UNCHANGED <<DB_new_object_backend, wm_depth, entities, placeholders, next_id>>
        /\ UNCHANGED classVars

NextDB ==
    \/ \E b \in BackendArgs : change_database(b)
    \/ \E cls \in Classes, i \in 1..MaxId, b \in BackendArgs \cup {NoneArg},
          found \in BOOLEAN : GetCall(cls, i, b, found)
    \/ \E cls \in Classes, i \in 1..MaxId,
          b \in BackendArgs \cup {NoneArg, Str("none")} : NewPlaceHolder(i, cls, b)
    \/ \E p \in 1..Len(placeholders), found \in BOOLEAN : GetObject(p, found)

SpecDB == Init /\ [][NextDB]_vars

----------------------------------------------------------------------------
\* Entities and the with_memory decorator

Live(k) == entities[k].cls # ""

\* The next id of the entity's table in the entity's backend, 0 if it has none.
Counter(ent) ==
    IF Saveable_backend(ent) \in IdBackends
    THEN next_id[Saveable_backend(ent)][ent.cls] ELSE 0

InBounds(ctr) == \A b \in IdBackends, c \in Classes : ctr[b][c] <= MaxId + 1

\* cls(backend=backend): a new object takes slot k; the object that was there
\* was never referenced again.
NewEntity(k, cls, backend) ==
    LET r == Saveable_init(cls, backend, DB_new_object_backend, next_id, n_inst)
    IN  /\ r.n_inst <= MaxInst
        /\ entities' = IF r.outcome = "ok" THEN [entities EXCEPT ![k] = r.ent]
                                           ELSE entities
        /\ n_inst' = r.n_inst
        /\ last' = [NoLast EXCEPT !.op = "new", !.e = k, !.arg = backend,
                       !.cls = cls, !.outcome = r.outcome,
                       !.nob0 = DB_new_object_backend, !.depth0 = wm_depth]
        /\ UNCHANGED <<DB_backend, DB_new_object_backend, wm_depth, placeholders,
                       next_id>>
        /\ UNCHANGED classVars

\* A read of entity k's id, short_identity or full_identity.
Read(k, op, r) ==
    /\ Live(k)
    /\ InBounds(r.ctr)
    /\ entities' = [entities EXCEPT ![k] = r.ent]
    /\ next_id' = r.ctr
    /\ last' = [NoLast EXCEPT !.op = op, !.e = k, !.pre = entities[k],
                   !.outcome = r.outcome, !.val = r.val, !.asked = r.asked,
                   !.ctr0 = Counter(entities[k]), !.db0 = DB_backend]
    /\ UNCHANGED <<DB_backend, DB_new_object_backend, n_inst, wm_depth, placeholders>>
    /\ UNCHANGED classVars

IdAccess(k) == Read(k, "id", Saveable_id(entities[k], next_id, 0))

ShortIdentity(k) ==
    Read(k, "short_identity", Saveable_short_identity(entities[k], next_id, DB_backend))

FullIdentity(k) ==
    Read(k, "full_identity", Saveable_full_identity(entities[k], next_id))

\* entity.set_id(i), as a backend calls it after a save or a load
SetId(k, i) ==
    /\ Live(k)
    /\ entities' = [entities EXCEPT ![k] = Saveable_set_id(entities[k], i)]
    /\ last' = [NoLast EXCEPT !.op = "set_id", !.e = k, !.i = i,
                   !.pre = entities[k]]
    /\ UNCHANGED <<DB_backend, DB_new_object_backend, n_inst, wm_depth,
                   placeholders, next_id>>
    /\ UNCHANGED classVars

\* entity.set_backend(backend)
SetBackend(k, backend) ==
    LET r == Saveable_set_backend(entities[k], backend, DB_new_object_backend,
                                  next_id, n_inst)
    IN  /\ Live(k)
        /\ r.n_inst <= MaxInst
        /\ InBounds(r.ctr)
        /\ entities' = [entities EXCEPT ![k] = r.ent]
        /\ next_id' = r.ctr
        /\ n_inst' = r.n_inst
        /\ last' = [NoLast EXCEPT !.op = "set_backend_of", !.e = k,
                       !.arg = backend, !.pre = entities[k],
                       !.outcome = r.outcome, !.nob0 = DB_new_object_backend]
        /\ UNCHANGED <<DB_backend, DB_new_object_backend, wm_depth, placeholders>>
        /\ UNCHANGED classVars

\* A with_memory-wrapped function is called.
WithMemoryCall ==
    /\ wm_depth < MaxDepth
    /\ DB_new_object_backend' = with_memory_before_call(DB_new_object_backend)
    /\ wm_depth' = wm_depth + 1
    /\ last' = [NoLast EXCEPT !.op = "wm_call", !.depth0 = wm_depth,
                   !.nob0 = DB_new_object_backend]
    /\ UNCHANGED <<DB_backend, n_inst, entities, placeholders, next_id>>
    /\ UNCHANGED classVars

\* The innermost wrapped function returns, or raises.
WithMemoryExit(raised) ==
    /\ wm_depth > 0
    /\ DB_new_object_backend' = with_memory_after_call(DB_new_object_backend, raised)
    /\ wm_depth' = wm_depth - 1
    /\ last' = [NoLast EXCEPT !.op = IF raised THEN "wm_raise" ELSE "wm_return",
                   !.depth0 = wm_depth, !.nob0 = DB_new_object_backend]
    /\ UNCHANGED <<DB_backend, n_inst, entities, placeholders, next_id>>
    /\ UNCHANGED classVars

EntityArgs == Singletons \cup {NoneArg, Str("memory"), Str("bogus")}

NextWM ==
    \/ WithMemoryCall
    \/ \E raised \in BOOLEAN : WithMemoryExit(raised)
    \/ \E k \in Slots, cls \in Classes, b \in EntityArgs :
          NewEntity(k, cls, b)

SpecWM == Init /\ [][NextWM]_vars

NextId ==
    \/ \E k \in Slots, cls \in Classes, b \in EntityArgs :
          NewEntity(k, cls, b)
    \/ \E k \in Slots : IdAccess(k)
    \/ \E k \in Slots : ShortIdentity(k)
    \/ \E k \in Slots : FullIdentity(k)
    \/ \E k \in Slots, i \in Ids : SetId(k, i)
    \/ \E k \in Slots, b \in EntityArgs : SetBackend(k, b)

SpecId == Init /\ [][NextId]_vars


----------------------------------------------------------------------------
\* fill_object_list, applied once to an object list and an active backend
\* that the session can have produced.

SeqsUpTo(S, n) == UNION {[1..m -> S] : m \in 0..n}

\* The elements of an object list: entities of one class, loaded from the
\* directory backend or living in the memory backend, with or without id.
ListEntities ==
    [cls : {"A"},
     backend : {database_backends["memory"], database_backends["directory"]},
     id : {NoId} \cup 1..MaxId]

Identities ==
    {BareId(i) : i \in 1..MaxId}
        \cup {PairId(b, i) : b \in {database_backends["memory"],
                                    database_backends["none"]}, i \in 1..MaxId}

InitFill ==
    /\ DB_backend \in {database_backends["directory"], database_backends["none"]}
    /\ DB_new_object_backend = "none"
    /\ n_inst = 0
    /\ wm_depth = 0
    /\ entities \in SeqsUpTo(ListEntities, MaxObjs)
    /\ placeholders = <<>>
    /\ next_id = [b \in IdBackends |-> [c \in Classes |-> 1]]
    /\ classes = <<>>
    /\ ALL_SAVABLE_CLASSES = {}
    /\ objs = <<>>
    /\ last = NoLast

FillObjectList(given, obj_ids, cls) ==
    LET r == fill_object_list(given, entities, obj_ids, cls, DB_backend, next_id)
    IN  /\ last.op = "init"
        /\ \A k \in 1..Len(entities) : entities[k].cls # ""
        /\ entities' = r.ents
        /\ next_id' = r.ctr
        /\ last' = [NoLast EXCEPT !.op = "fill", !.given = given, !.cls = cls,
                       !.ids = obj_ids, !.ents0 = entities, !.db0 = DB_backend,
                       !.outcome = r.outcome, !.list = r.list]
        /\ UNCHANGED <<DB_backend, DB_new_object_backend, n_inst, wm_depth,
                       placeholders>>
        /\ UNCHANGED classVars

NextFill ==
    \E given \in BOOLEAN, obj_ids \in SeqsUpTo(Identities, MaxLen),
       cls \in Classes \cup {""} : FillObjectList(given, obj_ids, cls)

SpecFill == InitFill /\ [][NextFill]_vars


----------------------------------------------------------------------------
\* Class definitions and the column resolution order

objVars == <<DB_backend, DB_new_object_backend, n_inst, wm_depth, entities,
             placeholders, next_id, objs>>

\* The base lists a class statement can name: one or two distinct classes
\* defined so far.
BaseCounts == {1, 2}

BaseLists(n) ==
    {q \in UNION {[1..m -> 0..n] : m \in BaseCounts} :
        \A i, j \in 1..Len(q) : i # j => q[i] # q[j]}

\* The registered classes whose definition raised: no name is bound to them.
Rejected ==
    {c \in ALL_SAVABLE_CLASSES : c.k > Len(classes) \/ classes[c.k] # c.cls}

\* class X(*bases): <body>, with the metaclass of Saveable. The registry
\* holds a class as the pair of its definition and its position.
DefineClass(bases, body) ==
    LET r == SaveableMetaClass_new(classes, bases, body)
        new == [cls |-> Class(bases, body), k |-> Len(classes) + 1]
    IN  /\ Len(classes) < MaxClasses
        /\ Cardinality(Rejected) < MaxRejected
        /\ \E i \in 1..Len(bases) : issubclass(classes, bases[i], 0)
        /\ classes' = IF r.outcome = "ok" THEN Append(classes, new.cls) ELSE classes
        /\ ALL_SAVABLE_CLASSES' = IF r.registered
                                  THEN ALL_SAVABLE_CLASSES \cup {new}
                                  ELSE ALL_SAVABLE_CLASSES
        /\ last' = [NoLast EXCEPT !.op = "class", !.outcome = r.outcome,
                       !.list = bases, !.body = body, !.e = Len(classes)]
        /\ UNCHANGED objVars

\* class M: pass
DefineMixin ==
    /\ Len(classes) < MaxClasses
    /\ classes' = Append(classes, Class(<<>>, PlainBody))
    /\ last' = [NoLast EXCEPT !.op = "mixin", !.e = Len(classes)]
    /\ UNCHANGED <<ALL_SAVABLE_CLASSES, objVars>>

SaveableClasses == {k \in 1..Len(classes) : issubclass(classes, k, 0)}

\* cls.get_column_resolution_order()
GetColumnResolutionOrder(k) ==
    /\ last' = [NoLast EXCEPT !.op = "cro", !.e = k,
                   !.list = get_column_resolution_order(classes, k)]
    /\ UNCHANGED <<classes, ALL_SAVABLE_CLASSES, objVars>>

NextCRO ==
    \/ \E bases \in BaseLists(Len(classes)) : DefineClass(bases, PlainBody)
    \/ DefineMixin
    \/ \E k \in SaveableClasses : GetColumnResolutionOrder(k)

SpecCRO == Init /\ [][NextCRO]_vars

\* Class statements with up to three bases, all deriving from Saveable.
WideBaseCounts == {1, 2, 3}

WideBaseLists(n) ==
    {q \in UNION {[1..m -> 0..n] : m \in WideBaseCounts} :
        \A i, j \in 1..Len(q) : i # j => q[i] # q[j]}

NextMRO ==
    \/ \E bases \in WideBaseLists(Len(classes)) : DefineClass(bases, PlainBody)
    \/ \E k \in SaveableClasses : GetColumnResolutionOrder(k)

SpecMRO == Init /\ [][NextMRO]_vars


----------------------------------------------------------------------------
\* Classes with tables, columns and owned object lists

name_column == Column("name", "name", <<>>)

x_column == Column("x", "x", <<>>)

\* a second column for the attribute name, a foreign key to parent.name
name_fk_column == Column("parent_name", "name", <<"parent", "name">>)

\* a second column for the attribute name, a foreign key to parent.x
name_ref_column == Column("parent_x", "name", <<"parent", "x">>)

\* The class bodies of the session.
ClassBodies ==
    {Body("parent", TRUE, <<name_column>>, FALSE, <<>>, FALSE),
     Body("parent", TRUE, <<name_column, x_column>>, FALSE, <<>>, FALSE),
     Body("parent", TRUE, <<x_column>>, FALSE, <<>>, FALSE),
     Body("child", FALSE, <<>>, TRUE, <<"items">>, FALSE),
     Body("child", TRUE, <<>>, TRUE, <<"items">>, FALSE),
     Body("child", TRUE, <<name_column>>, FALSE, <<>>, FALSE),
     Body("child", TRUE, <<name_fk_column>>, FALSE, <<>>, FALSE),
     Body("child", TRUE, <<name_ref_column>>, FALSE, <<>>, FALSE),
     Body("", TRUE, <<x_column>>, FALSE, <<>>, FALSE)}

\* cls.get_full_columns()
GetFullColumns(k) ==
    LET r == get_full_columns(classes, k)
    IN  /\ last' = [NoLast EXCEPT !.op = "full_columns", !.e = k,
                       !.outcome = r.outcome, !.list = r.list,
                       !.skipped = r.skipped, !.tables = r.tables]
        /\ UNCHANGED <<classes, ALL_SAVABLE_CLASSES, objVars>>

\* cls.get_full_owned_object_lists()
GetFullOwnedObjectLists(k) ==
    LET r == get_full_owned_object_lists(classes, k)
    IN  /\ last' = [NoLast EXCEPT !.op = "full_owned_object_lists", !.e = k,
                       !.outcome = r.outcome, !.list = r.list]
        /\ UNCHANGED <<classes, ALL_SAVABLE_CLASSES, objVars>>

NextCols ==
    \/ /\ Len(classes) < MaxTableClasses
       /\ \E base \in 0..Len(classes) : \E body \in ClassBodies :
             DefineClass(<<base>>, body)
    \/ \E k \in SaveableClasses : GetFullColumns(k)
    \/ \E k \in SaveableClasses : GetFullOwnedObjectLists(k)

SpecCols == Init /\ [][NextCols]_vars


----------------------------------------------------------------------------
\* Objects with owned children, compared and serialized once

KidNames == {StrValue("a"), FloatValue(0)}

Names == {StrValue("a"), FloatValue(0), FloatValue(1), FloatValue(3)}

KidIds == {ListValue(<<1>>), ListValue(<<2>>)}

\* The child lists of the two owners: objects 1 and 2 are the children.
KidLists == {<<>>, <<1>>, <<2>>, <<1, 2>>, <<2, 1>>}

\* Objects 1 and 2 own nothing; objects 3 and 4 own some of them.
ObjectGraphs ==
    {<<Object("B", StrValue("a"), ListValue(<<>>), <<>>),
       Object("B", n2, ListValue(<<>>), <<>>),
       Object("A", n3, ListValue(<<1>>), k3),
       Object(c4, n4, i4, k4)>> :
        n2 \in KidNames, n3 \in KidNames, k3 \in KidLists,
        c4 \in Classes, n4 \in Names, i4 \in KidIds, k4 \in KidLists}

InitEq ==
    /\ DB_backend = database_backends["directory"]
    /\ DB_new_object_backend = "none"
    /\ n_inst = 0
    /\ wm_depth = 0
    /\ entities = [k \in Slots |-> NoEnt]
    /\ placeholders = <<>>
    /\ next_id = [b \in IdBackends |-> [c \in Classes |-> 1]]
    /\ classes = <<>>
    /\ ALL_SAVABLE_CLASSES = {}
    /\ objs \in ObjectGraphs
    /\ last = NoLast

eqVars == <<DB_backend, DB_new_object_backend, n_inst, wm_depth, entities,
            placeholders, classes, ALL_SAVABLE_CLASSES>>

\* objs[a] == objs[b]
Eq(a, b) ==
    \E r \in {Saveable_eq(objs, next_id, a, b, 0)} :
        /\ last.op = "init"
        /\ objs' = r.objs
        /\ next_id' = r.ctr
        /\ last' = [NoLast EXCEPT !.op = "eq", !.a = a, !.b = b,
                       !.result = r.result, !.objs0 = objs]
        /\ UNCHANGED eqVars

\* objs[a].as_dict(exclude)
AsDict(a, exclude) ==
    \E r \in {Saveable_as_dict(objs, next_id, a, exclude)} :
        /\ last.op = "init"
        /\ objs' = r.objs
        /\ next_id' = r.ctr
        /\ last' = [NoLast EXCEPT !.op = "as_dict", !.a = a, !.dict = r.dict,
                       !.objs0 = objs]
        /\ UNCHANGED eqVars

\* new = cls.from_dict(objs[a].as_dict()), then new == objs[a]
FromDict(a) ==
    \E d \in {Saveable_as_dict(objs, next_id, a, {})} :
    \E r \in {Saveable_from_dict(objs[a].cls, d.dict)} :
    \E e \in {Saveable_eq(Append(d.objs, r.obj), d.ctr, Len(d.objs) + 1, a, 0)} :
        /\ last.op = "init"
        /\ objs' = IF r.outcome = "ok" THEN e.objs ELSE d.objs
        /\ next_id' = IF r.outcome = "ok" THEN e.ctr ELSE d.ctr
        /\ last' = [NoLast EXCEPT !.op = "from_dict", !.a = a, !.dict = d.dict,
                       !.outcome = r.outcome, !.objs0 = objs,
                       !.result = IF r.outcome = "ok" THEN e.result ELSE ""]
        /\ UNCHANGED eqVars

NextEq ==
    \/ \E a, b \in 1..Len(objs) : Eq(a, b)
    \/ \E a \in 1..Len(objs) : \E exclude \in {{}, {"kid_ids"}} : AsDict(a, exclude)
    \/ \E a \in 1..Len(objs) : FromDict(a)

SpecEq == InitEq /\ [][NextEq]_vars

\* Sessions whose objects own each other to any depth, cycles included:
\* four objects of class A, each owning at most one of the others; object 2
\* may already be saved in the directory backend.
OwnedLists(k) == {<<>>} \cup {<<j>> : j \in (1..4) \ {k}}

GraphNames == {StrValue("a"), FloatValue(0)}

Saved(o, backend, id) == [o EXCEPT !.backend = backend, !.id = id]

SavedOrNot(o) == {o, Saved(o, database_backends["directory"], 2)}

DeepGraphs ==
    {<<Object("A", StrValue("a"), ListValue(<<1>>), k1),
       o2,
       Object("A", StrValue("a"), ListValue(<<1>>), k3),
       Object("A", n4, ListValue(<<1>>), k4)>> :
        k1 \in OwnedLists(1), k3 \in OwnedLists(3), k4 \in OwnedLists(4),
        n4 \in GraphNames,
        o2 \in UNION {SavedOrNot(Object("A", StrValue("a"), ListValue(<<1>>), k2)) :
                         k2 \in OwnedLists(2)}}

InitGraph ==
    /\ DB_backend = database_backends["directory"]
    /\ DB_new_object_backend = "none"
    /\ n_inst = 0
    /\ wm_depth = 0
    /\ entities = [k \in Slots |-> NoEnt]
    /\ placeholders = <<>>
    /\ next_id = [b \in IdBackends |-> [c \in Classes |-> 1]]
    /\ classes = <<>>
    /\ ALL_SAVABLE_CLASSES = {}
    /\ objs \in DeepGraphs
    /\ last = NoLast

NextGraph ==
    \/ \E a, b \in 1..Len(objs) : Eq(a, b)
    \/ \E a \in 1..Len(objs) : AsDict(a, {})

SpecGraph == InitGraph /\ [][NextGraph]_vars

----------------------------------------------------------------------------
\* The whole session: every operation, from the state after import.

Next ==
    NextDB \/ NextWM \/ NextId \/ NextFill \/ NextCRO \/ NextMRO \/ NextCols
        \/ NextEq \/ NextGraph

Spec == Init /\ [][Next]_vars

----------------------------------------------------------------------------
\* Claims about the DataBase facade and the placeholders, under SpecDB.

\* C1: after every call Saveable.get(i, backend), made directly or through a
\* placeholder, DB.backend is the backend it was before the call, whether
\* the call returned an object or raised.
C1_GetRestoresBackend ==
    last.op \in {"get", "get_object"} => DB_backend = last.db0

\* C4: no placeholder carries the "none" backend, as instance or as name;
\* a construction that would give it one raises and creates no placeholder;
\* a construction without backend records DB.backend.
C4_PlaceHolderHasRealBackend ==
    /\ \A p \in 1..Len(placeholders) :
          /\ placeholders[p].backend # database_backends["none"]
          /\ placeholders[p].backend # Str("none")
          /\ Truthy(placeholders[p].backend)
    /\ last.op = "placeholder" =>
          LET b == IF Truthy(last.arg) THEN last.arg ELSE last.db0
          IN  IF b \in {database_backends["none"], Str("none")}
              THEN last.outcome = "DataBaseError" /\ Len(placeholders) = last.val
              ELSE /\ last.outcome = "ok"
                   /\ placeholders = <<[id |-> last.i, cls |-> last.cls,
                                        backend |-> b]>>

\* C4 witness: a construction without backend that records the memory
\* backend, which has become the active backend since the start.
C4_Witness ==
    /\ last.op = "placeholder"
    /\ last.arg = NoneArg
    /\ last.outcome = "ok"
    /\ placeholders[Len(placeholders)].backend = database_backends["memory"]

\* C5: get_object() fetches from the backend the placeholder recorded, not
\* from the active one, and the object it returns has the placeholder's id
\* and class.
C5_GetObjectUsesRecordedBackend ==
    last.op = "get_object" =>
        LET ph == placeholders[last.e]
        IN  /\ last.outcome \in {"ok", "BackendError"} =>
                /\ last.fetched.kind = "inst"
                /\ last.fetched.type = ph.backend.type
                /\ ph.backend.kind = "inst" => last.fetched = ph.backend
            /\ last.outcome = "ok" =>
                /\ last.obj.id = ph.id
                /\ last.obj.cls = ph.cls
                /\ last.obj.backend = last.fetched

C5_Witness ==
    /\ last.op = "get_object"
    /\ last.outcome = "ok"
    /\ placeholders[last.e].backend = database_backends["memory"]
    /\ last.db0 = database_backends["directory"]
    /\ last.fetched = database_backends["memory"]

\* C7: set_backend with a name that is no registered backend class raises
\* and leaves DB.backend as it was.
C7_UnknownNameRaises ==
    (last.op = "set_backend" /\ last.arg.kind = "str"
        /\ last.arg.type \notin BACKEND_CLASSES)
        => last.outcome = "NotImplementedError" /\ DB_backend = last.db0

C7_Witness ==
    /\ last.op = "set_backend"
    /\ last.arg = Str("bogus")
    /\ last.outcome = "NotImplementedError"
    /\ DB_backend = database_backends["memory"]

----------------------------------------------------------------------------
\* Claims about with_memory, under SpecWM.

\* C2: once a with_memory-wrapped call has finished, by return or by
\* exception, the routing is "none"; outside every wrapped call it is "none".
C2_RoutingResetAfterCall ==
    /\ last.op \in {"wm_return", "wm_raise"} => DB_new_object_backend = "none"
    /\ wm_depth = 0 => DB_new_object_backend = "none"

\* C3: while a with_memory-wrapped function executes, also after a nested
\* wrapped call has returned, the routing is "memory", and an entity
\* constructed there without a backend gets the memory backend.
C3_RoutingIsMemoryInsideCall ==
    /\ wm_depth > 0 => DB_new_object_backend = "memory"
    /\ (last.op = "new" /\ last.depth0 > 0 /\ last.arg = NoneArg)
          => entities[last.e].backend = database_backends["memory"]

----------------------------------------------------------------------------
\* Claims about the id of an entity, under SpecId.

IdOps == {"id", "short_identity", "full_identity", "set_id", "set_backend_of"}

\* C8: an id, once an entity has one, is not changed by any later operation
\* that leaves the entity on its backend.
C8_IdAssignedOnce ==
    (last.op \in IdOps /\ last.pre.id # NoId
        /\ entities[last.e].backend = last.pre.backend)
        => entities[last.e].id = last.pre.id

\* C9: reading the id of an entity on the none or the memory backend that has
\* no id takes the next available id of its table from its backend, once; a
\* read of an id that is set returns it and does not ask the backend.
C9_IdAssignedLazilyAndCached ==
    last.op = "id" =>
        LET ent == entities[last.e]
            b   == Saveable_backend(last.pre)
        IN  /\ ~Falsy(last.pre.id) =>
                /\ last.outcome = "ok"
                /\ last.val = last.pre.id
                /\ ~last.asked
                /\ ent = last.pre
                /\ Counter(ent) = last.ctr0
            /\ (Falsy(last.pre.id) /\ b.kind = "inst"
                    /\ b.type \in {"none", "memory"}) =>
                /\ last.outcome = "ok"
                /\ last.asked
                /\ last.val = last.ctr0
                /\ ~Falsy(last.val)
                /\ ent = [last.pre EXCEPT !.id = last.val]
                /\ Counter(ent) = last.ctr0 + 1

\* C9 witness: a second read of an id the memory backend gave out, while the
\* backend's counter has moved on.
C9_Witness ==
    /\ last.op = "id"
    /\ last.pre.backend = database_backends["memory"]
    /\ last.pre.id = 1
    /\ last.ctr0 = 3
    /\ last.val = 1
    /\ ~last.asked

\* C10: reading the id of an entity without id on a backend other than none
\* and memory raises DataBaseError, assigns no id and asks no backend.
C10_NoIdOnRealBackendRaisesDataBaseError ==
    (last.op = "id" /\ Falsy(last.pre.id) /\ last.pre.backend.kind = "inst"
        /\ last.pre.backend.type \notin {"none", "memory"})
        => /\ last.outcome = "DataBaseError"
           /\ ~last.asked
           /\ entities[last.e] = last.pre

----------------------------------------------------------------------------
\* Claims about fill_object_list, under SpecFill.

\* The placeholders the claim expects: one for every identity of obj_ids whose
\* id is the id of no element, in the order of obj_ids.
ExpectedPlaceHolders(elems, obj_ids, cls, db) ==
    LET Unrepresented(identity) ==
            \A k \in 1..Len(elems) : elems[k].id # identity.i
        missing == SelectSeq(obj_ids, Unrepresented)
    IN  [j \in 1..Len(missing) |->
            [id |-> missing[j].i, cls |-> cls,
             backend |-> IF missing[j].bare THEN db ELSE missing[j].backend]]

\* C6: the list fill_object_list returns is the given elements, the same
\* objects in the same order, followed by the expected placeholders.
C6_FillAppendsMissingPlaceHolders ==
    (last.op = "fill" /\ last.outcome = "ok") =>
        LET n == IF last.given THEN Len(last.ents0) ELSE 0
            elems == SubSeq(entities, 1, n)
            cls == IF last.cls # "" THEN last.cls ELSE last.ents0[1].cls
            expected == ExpectedPlaceHolders(elems, last.ids, cls, last.db0)
        IN  /\ Len(last.list) = n + Len(expected)
            /\ \A k \in 1..n :
                  /\ last.list[k] = EntityItem(k)
                  /\ entities[k].cls = last.ents0[k].cls
                  /\ entities[k].backend = last.ents0[k].backend
                  /\ last.ents0[k].id # NoId => entities[k].id = last.ents0[k].id
            /\ \A j \in 1..Len(expected) :
                  last.list[n + j] = PlaceHolderItem(expected[j])

\* C6 witness: an entity with id 2 and the identities 2 and (memory, 1) give
\* the entity and one placeholder, for id 1 in the memory backend.
C6_Witness ==
    /\ last.op = "fill"
    /\ last.outcome = "ok"
    /\ last.given
    /\ Len(last.ents0) = 1
    /\ last.ents0[1].id = 2
    /\ last.ids = <<BareId(2), PairId(database_backends["memory"], 1)>>
    /\ last.list = <<EntityItem(1),
                     PlaceHolderItem([id |-> 1, cls |-> "B",
                                      backend |-> database_backends["memory"]])>>

----------------------------------------------------------------------------
\* Claims about the column resolution order, under SpecCRO.

\* The classes k derives from, k itself included, by the bases alone.
RECURSIVE AncestorsOrSelf(_, _)
AncestorsOrSelf(cl, k) ==
    IF k = 0 THEN {0}
    ELSE {k} \cup UNION {AncestorsOrSelf(cl, cl[k].bases[i]) :
                            i \in 1..Len(cl[k].bases)}

\* C16: the column resolution order of cls holds cls and every ancestor of
\* cls that derives from Saveable, each once, Saveable and the mixins left
\* out, every class before all its subclasses, and cls last.
C16_CroIsParentsFirstOrder ==
    last.op = "cro" =>
        LET cro == last.list
            anc == AncestorsOrSelf(classes, last.e)
        IN  /\ Range(cro) = {x \in anc \ {0} : 0 \in AncestorsOrSelf(classes, x)}
            /\ Len(cro) = Cardinality(Range(cro))
            /\ \A i, j \in 1..Len(cro) :
                  (i # j /\ cro[j] \in AncestorsOrSelf(classes, cro[i])) => j < i
            /\ cro[Len(cro)] = last.e
            /\ cro = get_column_resolution_order(classes, last.e)

\* C16 witness: a diamond below Saveable with a mixin among the bases.
C16_Witness ==
    /\ last.op = "cro"
    /\ Len(last.list) = 4
    /\ Len(classes[last.e].bases) = 2
    /\ \E a \in Range(last.list) :
          \A i \in 1..Len(classes[last.e].bases) :
              /\ classes[last.e].bases[i] # 0
              /\ classes[classes[last.e].bases[i]].bases = <<a>>

----------------------------------------------------------------------------
\* Claims about class definitions and merged columns, under SpecCols.

DeclaresColumns(body) == body.has_cols /\ Len(body.columns) > 0

\* The classes the class statement with these bases derives from.
AncestorsOfBases(cl, bases) ==
    UNION {AncestorsOrSelf(cl, bases[i]) : i \in 1..Len(bases)} \ {0}

\* C11: a class statement that declares non-empty columns and a table_name
\* equal to the table_name of an ancestor (direct or distant) that declares
\* columns too fails when the class is defined.
C11_SameTableAsAncestorRejected ==
    (/\ last.op = "class"
     /\ DeclaresColumns(last.body)
     /\ last.body.table # ""
     /\ \E a \in AncestorsOfBases(classes, last.list) :
           /\ DeclaresColumns(classes[a].body)
           /\ table_name(classes, a).val = <<last.body.table>>)
        => last.outcome # "ok"

\* C12: a class statement that declares non-empty columns and no table_name
\* fails when the class is defined, whatever table_name it inherits.
C12_ColumnsWithoutTableRejected ==
    (/\ last.op = "class"
     /\ DeclaresColumns(last.body)
     /\ last.body.table = "")
        => last.outcome # "ok"

\* C13: get_full_columns leaves a column out silently only if it is a foreign
\* key to the merged column that provides its attribute, and a list it
\* returns never has two columns with the same attribute_name.
C13_DuplicateSkippedOnlyForForeignKeyToProvider ==
    (last.op = "full_columns" /\ last.outcome = "ok") =>
        /\ \A i, j \in 1..Len(last.list) :
              i # j => last.list[i].attribute_name # last.list[j].attribute_name
        /\ \A s \in 1..Len(last.skipped) :
              LET column == last.skipped[s]
              IN  /\ column.foreign_key # <<>>
                  /\ \E i \in 1..Len(last.list) :
                        /\ last.list[i].attribute_name = column.attribute_name
                        /\ last.list[i].name = column.foreign_key[2]
                        /\ last.tables[i] = <<column.foreign_key[1]>>

\* C14: for a class defined with non-empty columns, get_full_columns returns
\* the same list on every call, and the list has a column for the attribute
\* of each of the class's own columns.
C14_FullColumnsCoverOwnColumns ==
    (/\ last.op = "full_columns"
     /\ last.outcome = "ok"
     /\ DeclaresColumns(classes[last.e].body)) =>
        LET own == classes[last.e].body.columns
        IN  /\ last.list = get_full_columns(classes, last.e).list
            /\ \A j \in 1..Len(own) :
                  \E i \in 1..Len(last.list) :
                      last.list[i].attribute_name = own[j].attribute_name

\* Child subclasses Parent (table "parent", column name), has a table_name of
\* its own, declares no new columns and declares the owned object list items.
IsChildOfParent(k) ==
    /\ Len(classes[k].bases) = 1
    /\ classes[k].bases[1] # 0
    /\ LET Parent == classes[classes[k].bases[1]]
           Child == classes[k]
       IN  /\ Parent.bases = <<0>>
           /\ Parent.body.table = "parent"
           /\ Parent.body.columns = <<name_column>>
           /\ ~Parent.body.has_ools
           /\ Child.body.table = "child"
           /\ ~DeclaresColumns(Child.body)
           /\ Child.body.ools = <<"items">>

\* C15: for such a Child, get_full_columns succeeds and equals Parent.columns
\* and get_full_owned_object_lists has the list items exactly once.
C15_ChildWithoutColumnsGetsParentColumns ==
    /\ (last.op = "full_columns" /\ IsChildOfParent(last.e)) =>
          /\ last.outcome = "ok"
          /\ last.list = classes[classes[last.e].bases[1]].body.columns
    /\ (last.op = "full_owned_object_lists" /\ IsChildOfParent(last.e)) =>
          /\ last.outcome = "ok"
          /\ last.list = <<"items">>

----------------------------------------------------------------------------
\* Claims about equality and serialization, under SpecEq.

\* The two objects have the same class, identical attributes and, position by
\* position, children with the same content.
RECURSIVE SameContent(_, _, _)
SameContent(os, a, b) ==
    /\ os[a].cls = os[b].cls
    /\ os[a].name = os[b].name
    /\ os[a].kid_ids = os[b].kid_ids
    /\ Len(os[a].kids) = Len(os[b].kids)
    /\ \A i \in 1..Len(os[a].kids) : SameContent(os, os[a].kids[i], os[b].kids[i])

\* The child lists of the two objects have the same length and their members
\* are equal by ==, position by position.
ChildListsEqualInOrder(os, a, b) ==
    /\ Len(os[a].kids) = Len(os[b].kids)
    /\ \A i \in 1..Len(os[a].kids) :
          Saveable_eq(os, next_id, os[a].kids[i], os[b].kids[i], 1).result = "True"

\* C17 as stated: an object equals itself, objects of different classes are
\* unequal, distinct objects of one class with identical attribute maps and
\* equal child lists are equal, and they are unequal whenever the scalar
\* attribute differs.
C17_AnyScalarDifferenceIsUnequal ==
    last.op = "eq" =>
        LET os == last.objs0
        IN  /\ last.a = last.b => last.result = "True"
            /\ os[last.a].cls # os[last.b].cls => last.result = "False"
            /\ (last.a # last.b /\ SameContent(os, last.a, last.b))
                  => last.result = "True"
            /\ (/\ last.a # last.b
                /\ os[last.a].cls = os[last.b].cls
                /\ os[last.a].name # os[last.b].name) => last.result = "False"

\* C17 amended: as above, but the objects are unequal when the scalar
\* attribute differs and its two values are not close (two floats within the
\* tolerance are close).
C17_EqualityUpToFloatTolerance ==
    last.op = "eq" =>
        LET os == last.objs0
        IN  /\ last.a = last.b => last.result = "True"
            /\ os[last.a].cls # os[last.b].cls => last.result = "False"
            /\ (last.a # last.b /\ SameContent(os, last.a, last.b))
                  => last.result = "True"
            /\ (/\ last.a # last.b
                /\ os[last.a].cls = os[last.b].cls
                /\ os[last.a].name # os[last.b].name
                /\ ~thing_is_close(os[last.a].name, os[last.b].name))
                  => last.result = "False"

\* C17 witness: two distinct objects of one class with the same attributes
\* and the same two children compare equal.
C17_Witness ==
    /\ last.op = "eq"
    /\ last.a # last.b
    /\ SameContent(last.objs0, last.a, last.b)
    /\ Len(last.objs0[last.a].kids) = 2
    /\ last.result = "True"

\* C18: two distinct objects compare equal only if their child lists have
\* the same length and are equal position by position.
C18_EqualOnlyIfChildListsMatch ==
    (last.op = "eq" /\ last.a # last.b /\ last.result = "True")
        => ChildListsEqualInOrder(last.objs0, last.a, last.b)

\* C19: two distinct objects of one class that differ at most in the raw
\* linker ids kid_ids, with child lists equal position by position, compare
\* equal.
C19_LinkerIdsIgnored ==
    (/\ last.op = "eq"
     /\ last.a # last.b
     /\ last.objs0[last.a].cls = last.objs0[last.b].cls
     /\ last.objs0[last.a].name = last.objs0[last.b].name
     /\ ChildListsEqualInOrder(last.objs0, last.a, last.b))
        => last.result = "True"

\* C20: cls.from_dict(e.as_dict()) succeeds and returns an object equal to e.
C20_FromDictRoundTrip ==
    last.op = "from_dict" => (last.outcome = "ok" /\ last.result = "True")

----------------------------------------------------------------------------
\* A further claim about the backend of an entity, under SpecId.

\* A name that is neither a ready backend instance nor a backend class.
Unrecognized(arg) ==
    /\ arg.kind = "str"
    /\ arg.type \notin DOMAIN database_backends
    /\ arg.type \notin BACKEND_CLASSES

\* C22: giving an entity an unrecognized backend name, at construction or
\* through set_backend, raises an error and leaves the entity's backend as it
\* was; the backend of an entity is always a backend instance.
C22_UnrecognizedBackendRejected ==
    /\ (last.op \in {"new", "set_backend_of"} /\ Unrecognized(last.arg)) =>
          /\ last.outcome # "ok"
          /\ last.op = "set_backend_of" =>
                entities[last.e].backend = last.pre.backend
    /\ \A k \in Slots : Live(k) => Saveable_backend(entities[k]).kind = "inst"


----------------------------------------------------------------------------
\* A further claim about fill_object_list, under SpecFill.

\* The placeholders fill_object_list added, in order.
AddedPlaceHolders ==
    SelectSeq(last.list, LAMBDA item : item.isph)

\* C26: the list fill_object_list returns represents each identity at most
\* once among the placeholders it adds: no two added placeholders have the
\* same id in the same backend, and no added placeholder has the id and the
\* backend of an element that was already in the list.
C26_NoDuplicatePlaceHolders ==
    (last.op = "fill" /\ last.outcome = "ok") =>
        LET added == AddedPlaceHolders
            n == IF last.given THEN Len(last.ents0) ELSE 0
        IN  /\ \A i, j \in 1..Len(added) :
                  (i # j) =>
                      \/ added[i].ph.id # added[j].ph.id
                      \/ added[i].ph.backend # added[j].ph.backend
            /\ \A i \in 1..Len(added), k \in 1..n :
                  \/ added[i].ph.id # entities[k].id
                  \/ added[i].ph.backend # Saveable_backend(entities[k])


----------------------------------------------------------------------------
\* A further claim about the registry of classes, under SpecCols.

----------------------------------------------------------------------------
\* A further claim about equality, under SpecEq.

\* C25: evaluating a == b has no side effect on the object graph: no
\* object's backend or id changes, and nothing is saved to a backend (no id
\* is drawn from a backend's counter).
C25_EqHasNoSideEffects ==
    (last.op = "eq") =>
        /\ objs = last.objs0
        /\ \A b \in DOMAIN next_id :
              \A c \in DOMAIN next_id[b] : next_id[b][c] = 1


----------------------------------------------------------------------------
\* A further claim about the column resolution order, under SpecMRO.

\* The position of x in the sequence q that holds it.
IndexOf(q, x) == CHOOSE i \in 1..Len(q) : q[i] = x

\* C24: two classes of the column resolution order of cls of which neither
\* is a subclass of the other stand in the same relative order as in
\* cls.mro().
C24_CroKeepsHorizontalOrder ==
    last.op = "cro" =>
        LET cro == last.list
            m == mro(classes, last.e)
        IN  \A i, j \in 1..Len(cro) :
                (/\ i < j
                 /\ ~issubclass(classes, cro[i], cro[j])
                 /\ ~issubclass(classes, cro[j], cro[i])) =>
                    IndexOf(m, cro[i]) < IndexOf(m, cro[j])


----------------------------------------------------------------------------
\* Claims about owned-object graphs of any depth, under SpecGraph.

\* The objects reached from the objects of S by following child lists, S
\* included, in at most n steps.
RECURSIVE OwnedWithin(_, _, _)
OwnedWithin(os, S, n) ==
    IF n = 0 THEN S
    ELSE OwnedWithin(os, S \cup UNION {Range(os[x].kids) : x \in S}, n - 1)

\* The owned children of x, direct and indirect.
Descendants(os, x) == OwnedWithin(os, Range(os[x].kids), Len(os))

\* No object that x owns, directly or not, and not x itself, owns itself.
Acyclic(os, x) ==
    \A y \in {x} \cup Descendants(os, x) : y \notin Descendants(os, y)

\* C21: when e.as_dict() returns, every owned child of e, direct or
\* indirect, that was on the "none" backend is on the memory backend and has
\* an id, and every owned child that was on another backend is as it was.
C21_AsDictSavesAllDescendants ==
    last.op = "as_dict" =>
        \A x \in Descendants(last.objs0, last.a) \ {last.a} :
            IF last.objs0[x].backend = database_backends["none"]
            THEN /\ objs[x].backend = database_backends["memory"]
                 /\ objs[x].id # NoId
            ELSE objs[x] = last.objs0[x]

\* a owns x and x owns a, b owns y and y owns b, the four are distinct and
\* their dictionary representations are close.
OwnEachOther(os, a, b) ==
    /\ a # b
    /\ Len(os[a].kids) = 1
    /\ Len(os[b].kids) = 1
    /\ LET x == os[a].kids[1]
           y == os[b].kids[1]
       IN  /\ Cardinality({a, b, x, y}) = 4
           /\ os[x].kids = <<a>>
           /\ os[y].kids = <<b>>
           /\ \A u, v \in {a, b, x, y} :
                 /\ os[u].cls = os[v].cls
                 /\ thing_is_close(os[u].name, os[v].name)
                 /\ thing_is_close(os[u].kid_ids, os[v].kid_ids)

====
